---- MODULE Spec2Model ----
(***************************************************************************)
(* Verso storefront: cart, checkout and inventory, as a state machine.     *)
(* The database tables are the shared state; every HTTP request is a       *)
(* worker that executes its view one ORM statement (or a few adjacent      *)
(* ones) at a time, so that requests interleave the way Django's default   *)
(* autocommit mode lets them: no view of orders/views.py opens a           *)
(* transaction.                                                            *)
(***************************************************************************)
EXTENDS Integers, Sequences, FiniteSets, TLC

\* ------------------------------------------------------------------ bounds
\* Number of requests served in one behaviour.
MaxRequests == 3
\* Stock of every product and variant in the initial catalogue.
InitStock == 1
\* Number of staff and profile operations in one behaviour.
MaxEdits == 3
\* Largest usage_limit and usage_count of a coupon.
MaxUsage == 1
\* The clock readings run from 0 to MaxTime.
MaxTime == 3

\* ------------------------------------------------------------- the universe
None == "none"
Users == {"u1", "u2"}
Sessions == {"s1"}
\* Who sends a request: a logged-in user, an anonymous browser that has a
\* session key, or an anonymous browser that has none ("anon").
Anon == "anon"
Products == {"p1", "p2"}
Variants == {"v1"}
Workers == {"w1", "w2"}
\* The quantities a request posts: int(request.POST['quantity']) takes any
\* integer, and the column is a plain IntegerField whose MinValueValidator
\* save() and create() do not run; one integer that is not positive and one
\* that is stand for them.
Quantities == {0, 1}

\* Product.sku, and the size of a variant; '' is the size of "no variant".
Sku(p) == IF p = "p1" THEN "SKU1" ELSE "SKU2"
Size(v) == IF v = None THEN "" ELSE "M"

\* ProductVariant.product: the product a variant belongs to.
VariantProduct(v) == "p1"

\* request.user.is_authenticated
IsAuthenticated(who) == who \in Users

\* request.session.session_key: None for a browser without a session.
SessionKey(who) == IF who \in Sessions THEN who ELSE None

\* The names a user's profile may carry (first and last name).
Names == {"n1", "n2"}

\* The values generate_order_number() may return: the prefix and the date
\* are fixed within a day, the four random characters are not.
OrderNumbers == {"VSO1", "VSO2"}

VARIABLES
    carts,          \* Cart rows, each named by the principal it was made for
    cartOwner,      \* per cart: its user and session_key columns
    cartItems,      \* CartItem rows: [id, cart, product, variant, quantity]
    nextItemId,     \* next CartItem primary key
    productExists,  \* Product rows present
    variantExists,  \* ProductVariant rows present
    basePrice,      \* Product.base_price, in 1/100000 of the currency unit
    discountPct,    \* Product.discount_percentage, whole percents
    discountAmt,    \* Product.discount_amount, in 1/100000
    totalStock,     \* Product.total_stock
    salesCount,     \* Product.sales_count
    variantStock,   \* ProductVariant.stock
    orders,         \* Order rows
    orderItems,     \* OrderItem rows
    nextOrderId,    \* next Order primary key
    req,            \* per worker: the request it is executing and its locals
    served,         \* number of requests taken so far
    aborted,        \* history: ids of the orders whose checkout raised
    users,          \* User rows: role, is_staff, is_superuser, name
    sessionUser,    \* per session: the user it is logged in as, or None
    edits,          \* number of staff and profile operations so far; the clock
    perm,           \* the last permission question asked and its answers
    coupon,         \* the Coupon row
    answer          \* the last has_perm, is_valid or calculate_discount call

catalogue == <<productExists, variantExists, basePrice, discountPct, discountAmt>>
stock == <<totalStock, salesCount, variantStock>>
cartTables == <<carts, cartOwner, cartItems, nextItemId>>
orderTables == <<orders, orderItems, nextOrderId>>
accountTables == <<users, sessionUser>>
asked == <<perm, coupon, answer>>
staffOps == <<edits, perm, coupon, answer>>
vars == <<carts, cartOwner, cartItems, nextItemId, productExists, variantExists,
          basePrice, discountPct, discountAmt, totalStock, salesCount,
          variantStock, orders, orderItems, nextOrderId, req, served, aborted,
          users, sessionUser, edits, perm, coupon, answer>>

\* Cart.user / Cart.session_key
CartUser(c) == cartOwner[c].user
CartSessionKey(c) == cartOwner[c].session_key

\* ------------------------------------------------------------------ money
\* Amounts are integers counting 1/100000 of the currency unit, so that the
\* products formed by a whole-percent discount and by the 10% tax are exact.
Unit == 100000
Cent == 1000

\* A DecimalField(decimal_places=2) column keeps two places: the value is
\* quantized to the nearest cent, ties to the even cent.
Quantize2(x) ==
    LET q == x \div Cent
        r == x % Cent
    IN  IF 2 * r > Cent \/ (2 * r = Cent /\ q % 2 = 1) THEN (q + 1) * Cent
        ELSE q * Cent

\* ProductVariant.additional_price
AdditionalPrice(v) == 5 * Unit

\* A current_price that looks at discount_amount before the percentage.
CurrentPriceAmountFirst(p) ==
    IF discountAmt[p] > 0
    THEN (IF basePrice[p] - discountAmt[p] > 0
          THEN basePrice[p] - discountAmt[p] ELSE 0)
    ELSE IF discountPct[p] > 0
         THEN (basePrice[p] * (100 - discountPct[p])) \div 100
         ELSE basePrice[p]

\* Product.current_price
CurrentPrice(p) ==
    IF discountPct[p] > 0
    THEN (basePrice[p] * (100 - discountPct[p])) \div 100
    ELSE IF discountAmt[p] > 0
         THEN (IF basePrice[p] - discountAmt[p] > 0
               THEN basePrice[p] - discountAmt[p] ELSE 0)
         ELSE basePrice[p]

\* ProductVariant.price
VariantPrice(v) == CurrentPrice(VariantProduct(v)) + AdditionalPrice(v)

\* A unit_price that takes the product's price whether or not the item has
\* a variant.
UnitPriceOfProduct(item) == CurrentPrice(item.product)

\* CartItem.unit_price
UnitPrice(item) ==
    IF item.variant # None THEN VariantPrice(item.variant)
    ELSE CurrentPrice(item.product)

\* CartItem.total_price
TotalPrice(item) == UnitPrice(item) * item.quantity

\* ------------------------------------------------------------- cart reads
\* cart.items.all()
ItemsOf(c) == {i \in cartItems : i.cart = c}

RECURSIVE SumQuantity(_)
SumQuantity(S) ==
    IF S = {} THEN 0
    ELSE LET i == CHOOSE x \in S : TRUE
         IN  i.quantity + SumQuantity(S \ {i})

RECURSIVE SumTotalPrice(_)
SumTotalPrice(S) ==
    IF S = {} THEN 0
    ELSE LET i == CHOOSE x \in S : TRUE
         IN  TotalPrice(i) + SumTotalPrice(S \ {i})

\* Cart.total_items
TotalItems(c) == SumQuantity(ItemsOf(c))

\* Cart.subtotal
Subtotal(c) == SumTotalPrice(ItemsOf(c))

\* Cart.tax: subtotal * Decimal('0.1')
Tax(c) == Subtotal(c) \div 10

\* Cart.shipping
Shipping(c) == IF Subtotal(c) >= 50 * Unit THEN 0 ELSE 5 * Unit

\* Cart.total
Total(c) == Subtotal(c) + Tax(c) + Shipping(c)

\* "No such row": what .first() returns on an empty queryset (id 0 is no
\* primary key).
NoItem == [id |-> 0, cart |-> None, product |-> None, variant |-> None,
           quantity |-> 0]

\* The rows of a queryset ordered by '-added_at' (newest first): ids grow
\* with insertion time.
RECURSIVE NewestFirst(_)
NewestFirst(S) ==
    IF S = {} THEN << >>
    ELSE LET i == CHOOSE x \in S : \A y \in S : y.id <= x.id
         IN  <<i>> \o NewestFirst(S \ {i})

\* filter(cart=, product=, variant=).first() on a CartItem table.
FirstMatchIn(table, c, p, v) ==
    LET S == {i \in table : i.cart = c /\ i.product = p /\ i.variant = v}
    IN  IF S = {} THEN NoItem ELSE NewestFirst(S)[1]

\* CartItem.objects.filter(cart=, product=, variant=).first()
FirstMatch(c, p, v) == FirstMatchIn(cartItems, c, p, v)

\* CartItem.objects.get(id=): the row with this primary key, if any.
RowById(id) ==
    IF \E i \in cartItems : i.id = id
    THEN CHOOSE i \in cartItems : i.id = id
    ELSE NoItem


\* ---------------------------------------------------------------- workers
\* A worker's request: the view it runs (kind), where it stands in it (pc),
\* who sent it, and the view's local variables.
Idle ==
    [pc |-> "idle", kind |-> None, who |-> None, outcome |-> None,
     item |-> NoItem, product |-> None, variant |-> None, quantity |-> 0,
     order |-> 0, snapshot |-> << >>, idx |-> 0,
     ldTotal |-> 0, ldSales |-> 0, ldStock |-> 0, wrote |-> FALSE]

\* A worker is busy while it is in the middle of a view.
Busy(r) == req[r].pc \notin {"idle", "done"}

\* A worker takes a request when it is not busy. Workers are interchangeable:
\* the second one takes a request only while the first is busy.
Free(r) ==
    /\ ~Busy(r)
    /\ served < MaxRequests
    /\ r = "w2" => Busy("w1")

\* The request ended with this outcome. Until the worker takes its next
\* request it keeps who asked, for what, and what the request read and made.
Finished(r, how) ==
    [Idle EXCEPT !.pc = "done", !.outcome = how, !.kind = req[r].kind,
                 !.who = req[r].who, !.item = req[r].item,
                 !.order = req[r].order, !.snapshot = req[r].snapshot,
                 !.wrote = req[r].wrote]

\* A cart that does not exist has no owner columns.
NoOwner == [user |-> None, session_key |-> None]

\* A get_or_create that stores no session key.
NewCartOwnerWithoutKey(who) ==
    [user |-> IF IsAuthenticated(who) THEN who ELSE None, session_key |-> None]

\* Cart.objects.get_or_create(user=request.user) for a signed-in requester,
\* get_or_create(session_key=...) for an anonymous one: the columns of the
\* cart it creates. An anonymous browser without a session is given one
\* first (lines 47-48), so its key is set by then.
NewCartOwner(who) ==
    IF IsAuthenticated(who)
    THEN [user |-> who, session_key |-> None]
    ELSE [user |-> None, session_key |-> SessionKey(who)]

\* User.save(): is_staff follows the role; the admin role sets is_superuser,
\* and nothing ever clears it.
SavedUser(u) ==
    [u EXCEPT !.is_staff = u.role \in {"admin", "manager", "employee"},
              !.is_superuser = IF u.role = "admin" THEN TRUE ELSE @]

\* RegisterView.post: create_user(..., role='customer').
NewCustomer(name) ==
    SavedUser([role |-> "customer", is_staff |-> FALSE, is_superuser |-> FALSE,
               name |-> name])

\* No permission question has been asked.
NoPerm == [actor |-> None, target |-> None, actor_role |-> None,
           actor_superuser |-> FALSE, target_role |-> None,
           can_delete |-> FALSE, can_edit |-> FALSE]

\* No Coupon row.
NoCoupon == [code |-> None]

\* No has_perm, is_valid or calculate_discount call has been made.
NoAnswer == [fn |-> None]

\* The shop after its set-up: a catalogue, no cart, no request.
InitShop ==
    /\ carts = {}
    /\ cartOwner = [c \in Users \cup Sessions |-> NoOwner]
    /\ cartItems = {}
    /\ nextItemId = 1
    /\ productExists = [p \in Products |-> TRUE]
    /\ variantExists = [v \in Variants |-> TRUE]
    /\ basePrice = [p \in Products |-> IF p = "p1" THEN 80 * Unit ELSE 10 * Unit]
    /\ discountPct = [p \in Products |-> 0]
    /\ discountAmt = [p \in Products |-> 0]
    /\ totalStock = [p \in Products |-> InitStock]
    /\ salesCount = [p \in Products |-> 0]
    /\ variantStock = [v \in Variants |-> InitStock]
    /\ req = [r \in Workers |-> Idle]
    /\ served = 0
    /\ aborted = {}

\* No order has been placed.
InitOrders ==
    /\ orders = {}
    /\ orderItems = {}
    /\ nextOrderId = 1

\* Two registered customers, nobody logged in, nothing asked.
InitStaff ==
    /\ users = [u \in Users |-> NewCustomer("n1")]
    /\ sessionUser = [s \in Sessions |-> None]
    /\ edits = 0
    /\ perm = NoPerm
    /\ answer = NoAnswer

Init ==
    /\ InitShop
    /\ InitOrders
    /\ InitStaff
    /\ coupon = NoCoupon

\* --------------------------------------------------- AddToCartView.post
\* The INSERT of a CartItem row: the foreign keys must name existing rows,
\* and unique_together (cart, product, variant) rejects a second row with
\* the same three values; a NULL variant never collides (SQL NULLs are
\* distinct in a unique index).
InsertAllowed(row) ==
    /\ row.cart \in carts
    /\ productExists[row.product]
    /\ row.variant # None => variantExists[row.variant]
    /\ row.variant # None =>
         ~ \E i \in cartItems :
              /\ i.id # row.id
              /\ i.cart = row.cart
              /\ i.product = row.product
              /\ i.variant = row.variant

\* Model.save() of a loaded instance: UPDATE by primary key, and when no row
\* matched, INSERT the instance again.
SaveItem(row) == {i \in cartItems : i.id # row.id} \cup {row}

\* Whether that save goes through: the UPDATE always does, the INSERT only
\* when the constraints allow it.
SaveAllowed(row) == RowById(row.id) # NoItem \/ InsertAllowed(row)

\* Lines 41-67: load the product, get or create the cart, load the variant,
\* parse the quantity, look for an existing item.
AddToCartLookup(r, who, p, v, q) ==
    /\ Free(r)
    /\ served' = served + 1
    /\ IF ~productExists[p] \/ (v # None /\ ~variantExists[v])
       THEN /\ req' = [req EXCEPT ![r] =
                        [Idle EXCEPT !.pc = "done", !.kind = "add", !.who = who,
                                     !.outcome = "404"]]
            /\ UNCHANGED <<carts, cartOwner>>
       ELSE /\ carts' = carts \cup {who}
            /\ cartOwner' = IF who \in carts THEN cartOwner
                            ELSE [cartOwner EXCEPT ![who] = NewCartOwner(who)]
            /\ req' = [req EXCEPT ![r] =
                        [Idle EXCEPT !.pc = "add_write", !.kind = "add",
                                     !.who = who, !.product = p, !.variant = v,
                                     !.quantity = q,
                                     !.item = FirstMatch(who, p, v)]]
    /\ UNCHANGED <<cartItems, nextItemId, catalogue, stock, orderTables, aborted,
                   accountTables, staffOps>>

\* Lines 69-71: an item was found; add to the loaded quantity and save.
AddToCartUpdate(r) ==
    /\ req[r].pc = "add_write"
    /\ req[r].item # NoItem
    /\ LET row == [req[r].item EXCEPT !.quantity = @ + req[r].quantity]
       IN  IF SaveAllowed(row)
           THEN /\ cartItems' = SaveItem(row)
                /\ req' = [req EXCEPT ![r] = Finished(r, "ok")]
           ELSE /\ UNCHANGED cartItems
                /\ req' = [req EXCEPT ![r] = Finished(r, "error")]
    /\ UNCHANGED <<carts, cartOwner, nextItemId, catalogue, stock, orderTables, served, aborted,
                   accountTables, staffOps>>

\* Lines 73-79: no item was found; create one.
AddToCartCreate(r) ==
    /\ req[r].pc = "add_write"
    /\ req[r].item = NoItem
    /\ LET row == [id |-> nextItemId, cart |-> req[r].who,
                   product |-> req[r].product, variant |-> req[r].variant,
                   quantity |-> req[r].quantity]
       IN  IF InsertAllowed(row)
           THEN /\ cartItems' = cartItems \cup {row}
                /\ nextItemId' = nextItemId + 1
                /\ req' = [req EXCEPT ![r] = [Finished(r, "ok") EXCEPT !.item = row]]
           ELSE /\ UNCHANGED <<cartItems, nextItemId>>
                /\ req' = [req EXCEPT ![r] = Finished(r, "error")]
    /\ UNCHANGED <<carts, cartOwner, catalogue, stock, orderTables, served, aborted,
                   accountTables, staffOps>>

\* ------------------------------------------------ RemoveFromCartView.post
\* Lines 99-107, "Verify ownership": whether the view goes on to delete.
OwnershipVerified(who, item) ==
    IF IsAuthenticated(who)
    THEN ~ (CartUser(item.cart) # who)
    ELSE ~ (CartSessionKey(item.cart) # SessionKey(who))

RemoveFromCart(r, who, id) ==
    /\ Free(r)
    /\ served' = served + 1
    /\ LET item == RowById(id)
           me == [Idle EXCEPT !.pc = "done", !.kind = "remove", !.who = who,
                              !.item = item]
       IN  IF item = NoItem
           THEN /\ req' = [req EXCEPT ![r] = [me EXCEPT !.outcome = "404"]]
                /\ UNCHANGED cartItems
           ELSE IF OwnershipVerified(who, item)
           THEN /\ cartItems' = cartItems \ {item}
                /\ req' = [req EXCEPT ![r] = [me EXCEPT !.outcome = "ok"]]
           ELSE /\ req' = [req EXCEPT ![r] = [me EXCEPT !.outcome = "rejected"]]
                /\ UNCHANGED cartItems
    /\ UNCHANGED <<carts, cartOwner, nextItemId, catalogue, stock, orderTables, aborted,
                   accountTables, staffOps>>

\* ------------------------------------------------ UpdateCartItemView.post
\* Lines 120-121: load the item, parse the quantity.
UpdateCartItemLookup(r, who, id, q) ==
    /\ Free(r)
    /\ served' = served + 1
    /\ LET item == RowById(id)
           me == [Idle EXCEPT !.kind = "update", !.who = who, !.item = item,
                              !.quantity = q]
       IN  IF item = NoItem
           THEN req' = [req EXCEPT ![r] =
                          [me EXCEPT !.pc = "done", !.outcome = "404"]]
           ELSE req' = [req EXCEPT ![r] = [me EXCEPT !.pc = "upd_write"]]
    /\ UNCHANGED <<cartTables, catalogue, stock, orderTables, aborted,
                   accountTables, staffOps>>

\* Lines 123-125: a positive quantity is stored.
UpdateCartItemSave(r) ==
    /\ req[r].pc = "upd_write"
    /\ req[r].quantity > 0
    /\ LET row == [req[r].item EXCEPT !.quantity = req[r].quantity]
       IN  IF SaveAllowed(row)
           THEN /\ cartItems' = SaveItem(row)
                /\ req' = [req EXCEPT ![r] = Finished(r, "ok")]
           ELSE /\ UNCHANGED cartItems
                /\ req' = [req EXCEPT ![r] = Finished(r, "error")]
    /\ UNCHANGED <<carts, cartOwner, nextItemId, catalogue, stock, orderTables, served, aborted,
                   accountTables, staffOps>>

\* Lines 127-129: any other quantity deletes the item.
UpdateCartItemDelete(r) ==
    /\ req[r].pc = "upd_write"
    /\ req[r].quantity <= 0
    /\ cartItems' = {i \in cartItems : i.id # req[r].item.id}
    /\ req' = [req EXCEPT ![r] = Finished(r, "ok")]
    /\ UNCHANGED <<carts, cartOwner, nextItemId, catalogue, stock, orderTables, served, aborted,
                   accountTables, staffOps>>

\* ------------------------------------------------------ CheckoutView.post
\* The cart item the loop of lines 181-200 is at.
Current(r) == req[r].snapshot[req[r].idx]

\* A clear() that deletes nothing.
ClearDeletesNothing(c) == cartItems

\* Cart.clear(): what is left of the CartItem table.
Clear(c) == cartItems \ ItemsOf(c)

\* Lines 153-157: find the user's cart; an absent cart or one whose
\* total_items is 0 ends the request with the "cart is empty" redirect.
CheckoutStart(r, u) ==
    /\ Free(r)
    /\ served' = served + 1
    /\ LET me == [Idle EXCEPT !.kind = "checkout", !.who = u,
                              !.snapshot = NewestFirst(ItemsOf(u))]
       IN  IF u \notin carts \/ TotalItems(u) = 0
           THEN req' = [req EXCEPT ![r] =
                          [me EXCEPT !.pc = "done", !.outcome = "empty"]]
           ELSE req' = [req EXCEPT ![r] = [me EXCEPT !.pc = "co_create"]]
    /\ UNCHANGED <<cartTables, catalogue, stock, orderTables, aborted,
                   accountTables, staffOps>>

\* A timestamp column that is NULL.
NoTime == 0

\* An Order.save() that stamps the status's time on every save.
OrderSaveOverwrites(o, generated, now) ==
    LET n == [o EXCEPT !.order_number = IF @ = "" THEN generated ELSE @]
    IN  IF n.status = "paid" THEN [n EXCEPT !.paid_at = now]
        ELSE IF n.status = "shipped" THEN [n EXCEPT !.shipped_at = now]
        ELSE IF n.status = "delivered" THEN [n EXCEPT !.delivered_at = now]
        ELSE IF n.status = "cancelled" THEN [n EXCEPT !.cancelled_at = now]
        ELSE n

\* Order.save(): an order without a number is given the generated one, and
\* the timestamp of the status the order is saved with is set unless it
\* already is.
OrderSave(o, generated, now) ==
    LET n == [o EXCEPT !.order_number = IF @ = "" THEN generated ELSE @]
    IN  IF n.status = "paid" /\ n.paid_at = NoTime
        THEN [n EXCEPT !.paid_at = now]
        ELSE IF n.status = "shipped" /\ n.shipped_at = NoTime
        THEN [n EXCEPT !.shipped_at = now]
        ELSE IF n.status = "delivered" /\ n.delivered_at = NoTime
        THEN [n EXCEPT !.delivered_at = now]
        ELSE IF n.status = "cancelled" /\ n.cancelled_at = NoTime
        THEN [n EXCEPT !.cancelled_at = now]
        ELSE n

\* An order_number column that takes any value.
NumberAlwaysAccepted(o) == TRUE

\* Order.order_number is unique=True: the INSERT or UPDATE of a row whose
\* number another row holds raises IntegrityError.
NumberAccepted(o) ==
    ~ \E other \in orders :
         other.id # o.id /\ other.order_number = o.order_number

\* Lines 160-178: Order.objects.create with the user's name and the cart's
\* totals; status is the default and no timestamp is set. When the generated
\* number is taken the INSERT raises and the request ends there.
CheckoutCreateOrder(r) ==
    /\ req[r].pc = "co_create"
    /\ \E generated \in OrderNumbers :
         LET u == req[r].who
             o == OrderSave(
                    [id |-> nextOrderId, user |-> u, order_number |-> "",
                     customer_name |-> users[u].name,
                     status |-> "pending",
                     paid_at |-> NoTime, shipped_at |-> NoTime,
                     delivered_at |-> NoTime, cancelled_at |-> NoTime,
                     subtotal |-> Quantize2(Subtotal(u)),
                     tax |-> Quantize2(Tax(u)),
                     shipping |-> Quantize2(Shipping(u)),
                     discount |-> 0,
                     total |-> Quantize2(Total(u))],
                    generated, edits + 1)
         IN  IF NumberAccepted(o)
             THEN /\ orders' = orders \cup {o}
                  /\ nextOrderId' = nextOrderId + 1
                  /\ req' = [req EXCEPT ![r].pc = "co_query",
                                        ![r].order = nextOrderId]
             ELSE /\ UNCHANGED <<orders, nextOrderId>>
                  /\ req' = [req EXCEPT ![r] = Finished(r, "error")]
    /\ UNCHANGED <<cartTables, catalogue, stock, orderItems, served, aborted,
                   accountTables, staffOps>>

\* Line 181: the queryset cart.items.all() is evaluated once, here.
CheckoutQueryItems(r) ==
    /\ req[r].pc = "co_query"
    /\ LET rows == NewestFirst(ItemsOf(req[r].who))
       IN  req' = [req EXCEPT ![r].snapshot = rows, ![r].idx = 1,
                              ![r].pc = IF rows = << >> THEN "co_clear"
                                        ELSE "co_item"]
    /\ UNCHANGED <<cartTables, catalogue, stock, orderTables, served, aborted,
                   accountTables, staffOps>>

\* cart_item.product and cart_item.variant are fetched when first used
\* (lines 184-185); a row deleted since the queryset ran raises DoesNotExist.
RelatedRowsExist(item) ==
    /\ productExists[item.product]
    /\ item.variant # None =>
          variantExists[item.variant] /\ productExists[VariantProduct(item.variant)]

\* Lines 182-192: load the item's product and variant, create the OrderItem.
CheckoutCreateItem(r) ==
    /\ req[r].pc = "co_item"
    /\ RelatedRowsExist(Current(r))
    /\ LET it == Current(r)
       IN  /\ orderItems' = orderItems \cup
                {[order |-> req[r].order, line |-> req[r].idx,
                  product |-> it.product, variant |-> it.variant,
                  sku |-> Sku(it.product), size |-> Size(it.variant),
                  unit_price |-> Quantize2(UnitPrice(it)),
                  quantity |-> it.quantity]}
           /\ req' = [req EXCEPT
                 ![r].ldTotal = totalStock[it.product],
                 ![r].ldSales = salesCount[it.product],
                 ![r].ldStock = IF it.variant # None
                                THEN variantStock[it.variant] ELSE 0,
                 ![r].pc = IF it.variant # None THEN "co_variant"
                           ELSE "co_product"]
    /\ UNCHANGED <<cartTables, catalogue, stock, orders, nextOrderId, served, aborted,
                   accountTables, staffOps>>

\* The same lines when a related row is gone: the exception leaves the view;
\* nothing the request wrote so far is undone.
CheckoutRaise(r) ==
    /\ \/ req[r].pc = "co_item" /\ ~RelatedRowsExist(Current(r))
       \/ /\ req[r].pc = "co_variant"
          /\ ~variantExists[Current(r).variant]
          /\ ~productExists[VariantProduct(Current(r).variant)]
    /\ req' = [req EXCEPT ![r] = Finished(r, "error")]
    /\ aborted' = aborted \cup {req[r].order}
    /\ UNCHANGED <<cartTables, catalogue, stock, orderTables, served, accountTables,
                   staffOps>>

\* Lines 195-197: variant.stock -= quantity on the loaded instance, and
\* save(): an UPDATE, or an INSERT when the row is gone (which needs the
\* variant's product to exist).
CheckoutSaveVariant(r) ==
    /\ req[r].pc = "co_variant"
    /\ LET v == Current(r).variant
       IN  /\ variantExists[v] \/ productExists[VariantProduct(v)]
           /\ variantStock' = [variantStock EXCEPT
                                 ![v] = req[r].ldStock - Current(r).quantity]
           /\ variantExists' = [variantExists EXCEPT ![v] = TRUE]
    /\ req' = [req EXCEPT ![r].pc = "co_product", ![r].wrote = TRUE]
    /\ UNCHANGED <<cartTables, productExists, basePrice, discountPct, discountAmt,
                   totalStock, salesCount, orderTables, served, aborted, accountTables, staffOps>>

\* Lines 198-200: total_stock -= quantity, sales_count += quantity on the
\* loaded instance, and save() (an INSERT when the row is gone).
CheckoutSaveProduct(r) ==
    /\ req[r].pc = "co_product"
    /\ LET p == Current(r).product
           q == Current(r).quantity
       IN  /\ totalStock' = [totalStock EXCEPT ![p] = req[r].ldTotal - q]
           /\ salesCount' = [salesCount EXCEPT ![p] = req[r].ldSales + q]
           /\ productExists' = [productExists EXCEPT ![p] = TRUE]
    /\ req' = [req EXCEPT ![r].wrote = TRUE,
                          ![r].idx = @ + 1,
                          ![r].pc = IF req[r].idx < Len(req[r].snapshot)
                                    THEN "co_item" ELSE "co_clear"]
    /\ UNCHANGED <<cartTables, variantExists, basePrice, discountPct, discountAmt,
                   variantStock, orderTables, served, aborted, accountTables, staffOps>>

\* Lines 203-206: clear the cart, answer with the confirmation redirect.
CheckoutClearCart(r) ==
    /\ req[r].pc = "co_clear"
    /\ cartItems' = Clear(req[r].who)
    /\ req' = [req EXCEPT ![r] = Finished(r, "ok")]
    /\ UNCHANGED <<carts, cartOwner, nextItemId, catalogue, stock, orderTables, served, aborted,
                   accountTables, staffOps>>

\* ------------------------------------------------ ProductAdmin (delete)
\* The admin site deletes a product. on_delete takes the product's variants
\* and every CartItem of the product or of one of its variants along
\* (CASCADE), and empties the references OrderItems hold (SET_NULL).
DeleteProduct(p) ==
    /\ served < MaxRequests
    /\ served' = served + 1
    /\ productExists[p]
    /\ productExists' = [productExists EXCEPT ![p] = FALSE]
    /\ variantExists' = [v \in Variants |->
                           variantExists[v] /\ VariantProduct(v) # p]
    /\ totalStock' = [totalStock EXCEPT ![p] = 0]
    /\ salesCount' = [salesCount EXCEPT ![p] = 0]
    /\ variantStock' = [v \in Variants |->
                          IF VariantProduct(v) = p THEN 0 ELSE variantStock[v]]
    /\ cartItems' = {i \in cartItems :
                        /\ i.product # p
                        /\ i.variant # None => VariantProduct(i.variant) # p}
    /\ orderItems' =
         {[oi EXCEPT !.product = IF @ = p THEN None ELSE @,
                     !.variant = IF @ # None /\ VariantProduct(@) = p
                                 THEN None ELSE @] : oi \in orderItems}
    /\ UNCHANGED <<carts, cartOwner, nextItemId, basePrice, discountPct, discountAmt,
                   orders, nextOrderId, req, aborted, accountTables, staffOps>>

\* -------------------------------------------------------- LoginView.post
\* A browser that holds an anonymous session signs in: authenticate() and
\* login() mark the session as the user's (and give it a new key). The view
\* touches no cart. A failed sign-in changes nothing and is left out.
Login(s, u) ==
    /\ served < MaxRequests
    /\ served' = served + 1
    /\ sessionUser[s] = None
    /\ sessionUser' = [sessionUser EXCEPT ![s] = u]
    /\ UNCHANGED <<cartTables, catalogue, stock, orderTables, req, aborted, users,
                   staffOps>>

\* The requester is who it says: a session that has signed in sends no
\* anonymous requests any more.
StillAnonymous(who) == who \in Sessions => sessionUser[who] = None

\* AddToCartView.post, lines 41-67, from a customer or from a browser that
\* has not signed in.
SessionAddToCart(r, who, v) ==
    /\ StillAnonymous(who)
    /\ AddToCartLookup(r, who, "p1", v, 1)

\* -------------------------------------------------------- Cart.merge_with
\* Lines 71-82: the loop over other_cart.items.all(), from its k-th row on,
\* applied to a CartItem table. An item whose (product, variant) the
\* destination holds adds its quantity to the first such row; any other item
\* is moved to the destination.
RECURSIVE MergeItems(_, _, _, _)
MergeItems(table, dest, rows, k) ==
    IF k > Len(rows) THEN table
    ELSE LET item == rows[k]
             existing == FirstMatchIn(table, dest, item.product, item.variant)
             saved == IF existing # NoItem
                      THEN [existing EXCEPT !.quantity = @ + item.quantity]
                      ELSE [item EXCEPT !.cart = dest]
         IN  MergeItems({i \in table : i.id # saved.id} \cup {saved},
                        dest, rows, k + 1)

\* The CartItem table after self.merge_with(other_cart): the loop, then
\* other_cart.delete() (line 84), which takes the items still in it along.
MergedItems(dest, source) ==
    {i \in MergeItems(cartItems, dest, NewestFirst(ItemsOf(source)), 1) :
        i.cart # source}

\* dest.merge_with(source) for two carts that exist.
MergeWith(dest, source) ==
    /\ dest \in carts
    /\ source \in carts
    /\ dest # source
    /\ \A r \in Workers : ~Busy(r)
    /\ cartItems' = MergedItems(dest, source)
    /\ carts' = carts \ {source}
    /\ cartOwner' = [cartOwner EXCEPT ![source] = NoOwner]
    /\ UNCHANGED <<nextItemId, catalogue, stock, orderTables, req, served, aborted,
                   accountTables, staffOps>>

\* ------------------------------------------------------------ Order status
\* Order.STATUS_CHOICES
Statuses == {"pending", "processing", "paid", "shipped", "delivered",
             "cancelled", "refunded"}

\* Order.can_cancel
CanCancel(o) == o.status \in {"pending", "processing", "paid"}

\* Order.can_refund
CanRefund(o) == o.status \in {"paid", "shipped", "delivered"}

\* OrderStatusForm.save(): a staff member posts the form for an order. The
\* status field takes any of the choices; the form sets it on the instance
\* and calls Order.save(). order_number is not editable and is not among the
\* form's fields. The save neither reads nor writes anything a checkout in
\* flight does, so it is taken between requests only.
SetStatus(id, status) ==
    /\ edits < MaxEdits
    /\ \A r \in Workers : ~Busy(r)
    /\ edits' = edits + 1
    /\ \E o \in orders :
          /\ o.id = id
          /\ LET n == OrderSave([o EXCEPT !.status = status], "", edits + 1)
             IN  /\ NumberAccepted(n)
                 /\ orders' = (orders \ {o}) \cup {n}
    /\ UNCHANGED <<cartTables, catalogue, stock, orderItems, nextOrderId, req,
                   served, aborted, accountTables, asked>>

\* ------------------------------------------------- Order.calculate_totals
\* The values the discount column of an order may hold: the column has no
\* validator and no code of the shop writes it.
Discounts == {0, 5 * Unit, 200 * Unit}

\* The statuses create_orders picks from.
SeedStatuses == {"pending", "processing", "paid", "shipped", "delivered"}

\* The quantities create_orders picks from: random.randint(1, 2).
SeedQuantities == {1, 2}

\* create_orders, lines 387-405: the Order row, all amounts 0.
SeedOrder(u, status, discount, generated) ==
    OrderSave([id |-> 1, user |-> u, order_number |-> "",
               customer_name |-> users[u].name, status |-> status,
               paid_at |-> NoTime, shipped_at |-> NoTime,
               delivered_at |-> NoTime, cancelled_at |-> NoTime,
               subtotal |-> 0, tax |-> 0, shipping |-> 0,
               discount |-> discount, total |-> 0],
              generated, 1)

\* create_orders, lines 408-423: the OrderItem of a sampled product that has
\* a variant in stock, at the product's current price.
SeedItem(p, v, q) ==
    [order |-> 1, line |-> 1, product |-> p, variant |-> v, sku |-> Sku(p),
     size |-> Size(v), unit_price |-> Quantize2(CurrentPrice(p)), quantity |-> q]

\* OrderItem.total_price; discount_amount keeps its default, 0.
ItemTotalPrice(oi) == oi.unit_price * oi.quantity

RECURSIVE SumItemTotalPrice(_)
SumItemTotalPrice(S) ==
    IF S = {} THEN 0
    ELSE LET oi == CHOOSE x \in S : TRUE
         IN  ItemTotalPrice(oi) + SumItemTotalPrice(S \ {oi})

\* Order.calculate_totals(): the four amounts are computed from the items
\* and the order's discount, and the order is saved.
CalculateTotals(id) ==
    /\ edits < MaxEdits
    /\ edits' = edits + 1
    /\ \E o \in orders :
          /\ o.id = id
          /\ LET subtotal == SumItemTotalPrice({oi \in orderItems : oi.order = id})
                 tax == subtotal \div 10
                 shipping == IF subtotal >= 50 * Unit THEN 0 ELSE 5 * Unit
                 total == subtotal + tax + shipping - o.discount
                 n == OrderSave([o EXCEPT !.subtotal = Quantize2(subtotal),
                                          !.tax = Quantize2(tax),
                                          !.shipping = Quantize2(shipping),
                                          !.total = Quantize2(total)],
                                "", edits + 1)
             IN  /\ NumberAccepted(n)
                 /\ orders' = (orders \ {o}) \cup {n}
    /\ UNCHANGED <<cartTables, catalogue, stock, orderItems, nextOrderId, req,
                   served, aborted, accountTables, asked>>

\* ------------------------------------------------------- ProfileView.post
\* A profile edit that rewrites the customer's name on the user's orders.
EditProfileRewritingOrders(u, name) ==
    /\ edits < MaxEdits
    /\ edits' = edits + 1
    /\ users' = [users EXCEPT ![u] = SavedUser([@ EXCEPT !.name = name])]
    /\ orders' = {IF o.user = u THEN [o EXCEPT !.customer_name = name] ELSE o :
                    o \in orders}
    /\ UNCHANGED <<cartTables, catalogue, stock, orderItems, nextOrderId, req,
                   served, aborted, sessionUser, asked>>

\* Lines 119-131: the user's own fields are set from the form and the user
\* is saved; no order is touched.
EditProfile(u, name) ==
    /\ edits < MaxEdits
    /\ edits' = edits + 1
    /\ users' = [users EXCEPT ![u] = SavedUser([@ EXCEPT !.name = name])]
    /\ UNCHANGED <<cartTables, catalogue, stock, orderTables, req, served, aborted,
                   sessionUser, asked>>

\* ------------------------------------------------ ProductAdmin (change)
\* The prices the admin site may give a product.
Prices == {10 * Unit, 80 * Unit}

\* The admin site saves a product with another base_price.
EditProduct(p, price) ==
    /\ edits < MaxEdits
    /\ edits' = edits + 1
    /\ productExists[p]
    /\ basePrice[p] # price
    /\ basePrice' = [basePrice EXCEPT ![p] = price]
    /\ UNCHANGED <<cartTables, productExists, variantExists, discountPct,
                   discountAmt, stock, orderTables, req, served, aborted,
                   accountTables, asked>>

\* The values a product form may be posted with for base_price,
\* discount_percentage and discount_amount; some of them the validators of
\* the three columns refuse.
BasePrices == {0 - 10 * Unit, 0, 10 * Unit, 100 * Unit}
Percentages == {0, 20, 100, 150}
DiscountAmounts == {0 - 5 * Unit, 0, 5 * Unit, 200 * Unit}

\* A form that validates nothing.
AnyPricing(base, pct, amt) == TRUE

\* The validators of the three columns, which a ModelForm (the admin site's
\* and ProductForm) runs before it saves: MinValueValidator(0) on each,
\* MaxValueValidator(100) on the percentage.
ValidPricing(base, pct, amt) ==
    /\ base >= 0
    /\ pct >= 0
    /\ pct <= 100
    /\ amt >= 0

\* The admin site saves a product with other pricing columns; an invalid
\* form saves nothing.
EditPricing(p, base, pct, amt) ==
    /\ edits < MaxEdits
    /\ edits' = edits + 1
    /\ productExists[p]
    /\ ValidPricing(base, pct, amt)
    /\ <<basePrice[p], discountPct[p], discountAmt[p]>> # <<base, pct, amt>>
    /\ basePrice' = [basePrice EXCEPT ![p] = base]
    /\ discountPct' = [discountPct EXCEPT ![p] = pct]
    /\ discountAmt' = [discountAmt EXCEPT ![p] = amt]
    /\ UNCHANGED <<cartTables, productExists, variantExists, stock, orderTables,
                   req, served, aborted, accountTables, asked>>

\* ------------------------------------------------------------------- User
\* User.ROLE_CHOICES
Roles == {"admin", "manager", "employee", "customer"}

\* User.is_staff_member
IsStaffMember(u) == u.role \in {"admin", "manager", "employee"}

\* User.is_admin
IsAdmin(u) == u.role = "admin"

\* role_hierarchy.get(role, 0) in can_delete_user
RoleHierarchy(role) ==
    IF role = "employee" THEN 1
    ELSE IF role = "manager" THEN 2
    ELSE IF role = "admin" THEN 3
    ELSE 0

\* A can_delete_user that lets a user delete users of its own rank.
CanDeleteUserOfEqualRank(actor, target) ==
    IF ~IsStaffMember(users[actor]) THEN FALSE
    ELSE IF IsAdmin(users[target]) /\ ~users[actor].is_superuser THEN FALSE
    ELSE IF RoleHierarchy(users[target].role) > RoleHierarchy(users[actor].role)
    THEN FALSE
    ELSE TRUE

\* User.can_delete_user: actor.can_delete_user(target)
CanDeleteUser(actor, target) ==
    IF ~IsStaffMember(users[actor]) THEN FALSE
    ELSE IF IsAdmin(users[target]) /\ ~users[actor].is_superuser THEN FALSE
    ELSE IF RoleHierarchy(users[target].role) >= RoleHierarchy(users[actor].role)
    THEN FALSE
    ELSE TRUE

\* User.can_edit_user: actor.can_edit_user(target); the users are compared
\* by id.
CanEditUser(actor, target) ==
    IF ~IsStaffMember(users[actor]) THEN FALSE
    ELSE IF actor = target THEN TRUE
    ELSE CanDeleteUser(actor, target)

\* The permission strings has_perm is asked about: those of the matrix and
\* two that are on no list.
Permissions ==
    {"products.add_product", "products.change_product", "products.view_product",
     "products.delete_product", "orders.view_order", "orders.change_order",
     "orders.add_order", "accounts.view_user", "accounts.add_user",
     "accounts.delete_user"}

\* permission_matrix with products.delete_product on the manager's list.
PermissionMatrixWithDelete(role) ==
    IF role = "manager"
    THEN {"products.add_product", "products.change_product",
          "products.view_product", "products.delete_product",
          "orders.view_order", "orders.change_order",
          "accounts.view_user", "accounts.add_user"}
    ELSE IF role = "employee"
    THEN {"products.view_product", "orders.view_order", "orders.change_order",
          "accounts.view_user"}
    ELSE {"orders.add_order", "orders.view_order"}

\* permission_matrix[role], for the roles manager, employee and customer
PermissionMatrix(role) ==
    IF role = "manager"
    THEN {"products.add_product", "products.change_product",
          "products.view_product", "orders.view_order", "orders.change_order",
          "accounts.view_user", "accounts.add_user"}
    ELSE IF role = "employee"
    THEN {"products.view_product", "orders.view_order", "orders.change_order",
          "accounts.view_user"}
    ELSE {"orders.add_order", "orders.view_order"}

\* User.has_perm(permission): every role other than admin is a key of the
\* matrix, so the fall-through to the parent class is never taken.
HasPerm(u, permission) ==
    IF u.is_superuser \/ IsAdmin(u) THEN TRUE
    ELSE permission \in PermissionMatrix(u.role)

\* A caller asks user.has_perm(permission).
AskHasPerm(u, permission) ==
    /\ answer' = [fn |-> "has_perm", role |-> users[u].role,
                  is_superuser |-> users[u].is_superuser,
                  permission |-> permission,
                  result |-> HasPerm(users[u], permission)]
    /\ answer' # answer
    /\ UNCHANGED <<cartTables, catalogue, stock, orderTables, req, served, aborted,
                   accountTables, edits, perm, coupon>>

\* A caller asks whether actor may delete and may edit target.
AskPermission(actor, target) ==
    /\ perm' = [actor |-> actor, target |-> target,
                actor_role |-> users[actor].role,
                actor_superuser |-> users[actor].is_superuser,
                target_role |-> users[target].role,
                can_delete |-> CanDeleteUser(actor, target),
                can_edit |-> CanEditUser(actor, target)]
    /\ perm' # perm
    /\ UNCHANGED <<cartTables, catalogue, stock, orderTables, req, served, aborted,
                   accountTables, edits, coupon, answer>>

\* A user's role is changed and the user saved (the admin site's user form,
\* or user.role = ...; user.save()).
SaveUser(u, role) ==
    /\ edits < MaxEdits
    /\ edits' = edits + 1
    /\ users' = [users EXCEPT ![u] = SavedUser([@ EXCEPT !.role = role])]
    /\ UNCHANGED <<cartTables, catalogue, stock, orderTables, req, served, aborted,
                   sessionUser, asked>>

\* ----------------------------------------------------------------- Coupon
\* usage_limit is a nullable integer column; -1 stands for NULL.
NoLimit == -1

\* The amounts a coupon's discount_value and minimum_purchase may hold, and
\* the subtotals calculate_discount is called with. A percentage coupon's
\* discount_value counts percents on the same scale (10 * Unit is 10%).
CouponValues == {10 * Unit, 1000 * Unit}
MinimumPurchases == {0, 100 * Unit}
Subtotals == {10 * Unit, 50 * Unit, 160 * Unit}

\* The Coupon rows that can be stored: no column has a validator, and
\* nothing orders valid_from and valid_to.
Coupons ==
    [code : {"SAVE"},
     discount_type : {"percentage", "fixed"},
     discount_value : CouponValues,
     minimum_purchase : MinimumPurchases,
     usage_limit : {NoLimit} \cup (0 .. MaxUsage),
     usage_count : 0 .. MaxUsage,
     valid_from : 1 .. MaxTime - 1,
     valid_to : 1 .. MaxTime - 1,
     is_active : BOOLEAN]

\* discount_value read as a number of percents; subtotal * (percents / 100)
\* is formed as (subtotal / 100) * percents, which is exact because every
\* amount is a multiple of 100 on this scale.
Percent(value) == value \div Unit

\* Truth value of an Optional[int] in Python: None and 0 are false.
Truthy(n) == n # NoLimit /\ n # 0

\* Coupon.is_valid(), with now = timezone.now()
IsValid(c, now) ==
    IF ~c.is_active THEN FALSE
    ELSE IF c.valid_from > now \/ c.valid_to < now THEN FALSE
    ELSE IF Truthy(c.usage_limit) /\ c.usage_count >= c.usage_limit THEN FALSE
    ELSE TRUE

\* A calculate_discount whose fixed branch returns discount_value as it is.
CalculateDiscountUncapped(c, subtotal) ==
    IF subtotal < c.minimum_purchase THEN 0
    ELSE IF c.discount_type = "percentage"
    THEN (subtotal \div 100) * Percent(c.discount_value)
    ELSE c.discount_value

\* Coupon.calculate_discount(subtotal)
CalculateDiscount(c, subtotal) ==
    IF subtotal < c.minimum_purchase THEN 0
    ELSE IF c.discount_type = "percentage"
    THEN (subtotal \div 100) * Percent(c.discount_value)
    ELSE IF c.discount_value < subtotal THEN c.discount_value ELSE subtotal

\* A caller asks coupon.is_valid() when the clock reads now.
AskIsValid(now) ==
    /\ coupon # NoCoupon
    /\ answer' = [fn |-> "is_valid", now |-> now,
                  result |-> IsValid(coupon, now)]
    /\ answer' # answer
    /\ UNCHANGED <<cartTables, catalogue, stock, orderTables, req, served, aborted,
                   accountTables, edits, perm, coupon>>

\* A caller asks coupon.calculate_discount(subtotal).
AskCalculateDiscount(subtotal) ==
    /\ coupon # NoCoupon
    /\ answer' = [fn |-> "calculate_discount", subtotal |-> subtotal,
                  result |-> CalculateDiscount(coupon, subtotal)]
    /\ answer' # answer
    /\ UNCHANGED <<cartTables, catalogue, stock, orderTables, req, served, aborted,
                   accountTables, edits, perm, coupon>>

\* ---------------------------------------------------------- specifications
\* Checkout and inventory: signed-in customers fill carts and check out
\* while the admin site may delete products.
Next ==
    \/ \E r \in Workers, u \in Users, p \in Products, v \in Variants \cup {None},
          q \in Quantities : AddToCartLookup(r, u, p, v, q)
    \/ \E r \in Workers : AddToCartUpdate(r)
    \/ \E r \in Workers : AddToCartCreate(r)
    \/ \E r \in Workers, u \in Users : CheckoutStart(r, u)
    \/ \E r \in Workers : CheckoutCreateOrder(r)
    \/ \E r \in Workers : CheckoutQueryItems(r)
    \/ \E r \in Workers : CheckoutCreateItem(r)
    \/ \E r \in Workers : CheckoutRaise(r)
    \/ \E r \in Workers : CheckoutSaveVariant(r)
    \/ \E r \in Workers : CheckoutSaveProduct(r)
    \/ \E r \in Workers : CheckoutClearCart(r)
    \/ \E p \in Products : DeleteProduct(p)

Spec == Init /\ [][Next]_vars

\* The cart views: customers and anonymous browsers add, change and remove
\* cart items. The item_id a remove or update request names is any primary
\* key the CartItem table may hold.
ItemIds == 1..MaxRequests

NextCart ==
    \/ \E r \in Workers, who \in Users \cup Sessions, p \in Products,
          v \in Variants \cup {None}, q \in Quantities :
          AddToCartLookup(r, who, p, v, q)
    \/ \E r \in Workers : AddToCartUpdate(r)
    \/ \E r \in Workers : AddToCartCreate(r)
    \/ \E r \in Workers, who \in Users \cup Sessions \cup {Anon}, id \in ItemIds :
          RemoveFromCart(r, who, id)
    \/ \E r \in Workers, who \in Users \cup Sessions \cup {Anon}, id \in ItemIds,
          q \in Quantities : UpdateCartItemLookup(r, who, id, q)
    \/ \E r \in Workers : UpdateCartItemSave(r)
    \/ \E r \in Workers : UpdateCartItemDelete(r)

SpecCart == Init /\ [][NextCart]_vars

\* Sessions: anonymous browsers and customers fill carts, browsers sign in,
\* carts are merged, customers check out, the admin site deletes products.
NextSession ==
    \/ \E r \in Workers, who \in Users \cup Sessions, v \in Variants \cup {None} :
          SessionAddToCart(r, who, v)
    \/ \E r \in Workers : AddToCartUpdate(r)
    \/ \E r \in Workers : AddToCartCreate(r)
    \/ \E s \in Sessions, u \in Users : Login(s, u)
    \/ \E dest, source \in Users \cup Sessions : MergeWith(dest, source)
    \/ \E r \in Workers, u \in Users : CheckoutStart(r, u)
    \/ \E r \in Workers : CheckoutCreateOrder(r)
    \/ \E r \in Workers : CheckoutQueryItems(r)
    \/ \E r \in Workers : CheckoutCreateItem(r)
    \/ \E r \in Workers : CheckoutRaise(r)
    \/ \E r \in Workers : CheckoutSaveVariant(r)
    \/ \E r \in Workers : CheckoutSaveProduct(r)
    \/ \E r \in Workers : CheckoutClearCart(r)
    \/ DeleteProduct("p1")

SpecSession == Init /\ [][NextSession]_vars

\* Orders: a customer fills a cart and checks out (twice at once, maybe),
\* and staff change the status of the orders. No product is deleted here,
\* so no checkout meets a missing row.
NextOrders ==
    \/ \E r \in Workers : AddToCartLookup(r, "u1", "p1", None, 1)
    \/ \E r \in Workers : AddToCartUpdate(r)
    \/ \E r \in Workers : AddToCartCreate(r)
    \/ \E r \in Workers : CheckoutStart(r, "u1")
    \/ \E r \in Workers : CheckoutCreateOrder(r)
    \/ \E r \in Workers : CheckoutQueryItems(r)
    \/ \E r \in Workers : CheckoutCreateItem(r)
    \/ \E r \in Workers : CheckoutSaveProduct(r)
    \/ \E r \in Workers : CheckoutClearCart(r)
    \/ \E id \in 1..MaxRequests, status \in Statuses : SetStatus(id, status)

SpecOrders == Init /\ [][NextOrders]_vars

\* Snapshots: a customer fills a cart and checks out; afterwards, or in
\* between, the customer edits the profile and the admin site changes and
\* deletes the product.
NextSnapshot ==
    \/ AddToCartLookup("w1", "u1", "p1", "v1", 1)
    \/ AddToCartUpdate("w1")
    \/ AddToCartCreate("w1")
    \/ CheckoutStart("w1", "u1")
    \/ CheckoutCreateOrder("w1")
    \/ CheckoutQueryItems("w1")
    \/ CheckoutCreateItem("w1")
    \/ CheckoutRaise("w1")
    \/ CheckoutSaveVariant("w1")
    \/ CheckoutSaveProduct("w1")
    \/ CheckoutClearCart("w1")
    \/ \E name \in Names : EditProfile("u1", name)
    \/ \E price \in Prices : EditProduct("p1", price)
    \/ DeleteProduct("p1")

SpecSnapshot == Init /\ [][NextSnapshot]_vars

\* Pricing: one customer fills a cart while the pricing of product p1 is
\* edited.
NextPricing ==
    \/ \E p \in Products, v \in Variants \cup {None} :
          AddToCartLookup("w1", "u1", p, v, 1)
    \/ AddToCartUpdate("w1")
    \/ AddToCartCreate("w1")
    \/ \E base \in BasePrices, pct \in Percentages, amt \in DiscountAmounts :
          EditPricing("p1", base, pct, amt)

SpecPricing == Init /\ [][NextPricing]_vars

\* Totals: an order as the seeding command creates it, with any discount,
\* has its totals calculated.
InitTotals ==
    /\ InitShop
    /\ InitStaff
    /\ coupon = NoCoupon
    /\ \E u \in Users, status \in SeedStatuses, discount \in Discounts,
          generated \in OrderNumbers :
          orders = {SeedOrder(u, status, discount, generated)}
    /\ orderItems \in {{}} \cup {{SeedItem("p1", "v1", q)} : q \in SeedQuantities}
    /\ nextOrderId = 2

NextTotals == CalculateTotals(1)

SpecTotals == InitTotals /\ [][NextTotals]_vars

\* Coupons: a stored coupon is asked whether it is valid and what it takes
\* off a subtotal.
InitCoupon ==
    /\ InitShop
    /\ InitOrders
    /\ InitStaff
    /\ coupon \in Coupons

NextCoupon ==
    \/ \E now \in 0 .. MaxTime : AskIsValid(now)
    \/ \E subtotal \in Subtotals : AskCalculateDiscount(subtotal)

SpecCoupon == InitCoupon /\ [][NextCoupon]_vars

\* Users: roles are changed and users saved, and permission questions are
\* asked about them.
NextUsers ==
    \/ \E u \in Users, role \in Roles : SaveUser(u, role)
    \/ \E actor, target \in Users : AskPermission(actor, target)
    \/ \E u \in Users, permission \in Permissions : AskHasPerm(u, permission)

SpecUsers == Init /\ [][NextUsers]_vars

\* ------------------------------------------------------------------ claims
\* The workers that run, or last ran, a checkout.
Checkouts == {r \in Workers : req[r].kind = "checkout"}

\* The OrderItem rows of an order.
OrderItemsOf(o) == {oi \in orderItems : oi.order = o}

RECURSIVE SumOrdered(_)
SumOrdered(S) ==
    IF S = {} THEN 0
    ELSE LET oi == CHOOSE x \in S : TRUE
         IN  oi.quantity + SumOrdered(S \ {oi})

\* C1: a checkout that fails after its Order row was created leaves nothing
\* behind: the Order row is gone, it has no OrderItem, and no stock or
\* sales_count write of the attempt persists. (The cart keeps its items in
\* any case: the view clears it last, at line 203.)
C1_FailedCheckoutLeavesNothing ==
    \A r \in Checkouts :
        (req[r].pc = "done" /\ req[r].outcome = "error") =>
            /\ ~ \E o \in orders : o.id = req[r].order
            /\ OrderItemsOf(req[r].order) = {}
            /\ ~req[r].wrote

\* C2: no ProductVariant.stock and no Product.total_stock is ever negative.
C2_StockNeverNegative ==
    /\ \A p \in Products : productExists[p] => totalStock[p] >= 0
    /\ \A v \in Variants : variantExists[v] => variantStock[v] >= 0

\* The stock a checkout found for the item it is at: the variant's when the
\* item has one, else the product's.
AvailableStock(r) ==
    IF Current(r).variant # None THEN req[r].ldStock ELSE req[r].ldTotal

\* C3: a checkout never goes on to order an item whose quantity exceeds the
\* stock it found: past the creation of an item's OrderItem, the quantity is
\* covered by the stock.
C3_InsufficientStockStops ==
    \A r \in Checkouts :
        req[r].pc \in {"co_variant", "co_product"} =>
            Current(r).quantity <= AvailableStock(r)

\* C4: with no checkout under way and none failed, every product's
\* total_stock is its initial value less all quantities ordered of it, its
\* sales_count is that sum, and likewise every variant's stock.
C4_NoLostDecrement ==
    ((\A r \in Workers : ~Busy(r)) /\ aborted = {}) =>
        /\ \A p \in Products : productExists[p] =>
              LET n == SumOrdered({oi \in orderItems : oi.sku = Sku(p)})
              IN  totalStock[p] = InitStock - n /\ salesCount[p] = n
        /\ \A v \in Variants : variantExists[v] =>
              variantStock[v] =
                 InitStock - SumOrdered({oi \in orderItems : oi.size = Size(v)})

\* What the OrderItem made from a cart row carries.
Carries(oi, row) ==
    /\ oi.product = row.product
    /\ oi.variant = row.variant
    /\ oi.quantity = row.quantity
    /\ oi.unit_price = Quantize2(UnitPrice(row))

\* C5: (a) each step of the checkout loop adds to the order one OrderItem
\* that carries the product, variant, quantity and unit price of the cart
\* item the loop is at; (b) when a checkout succeeds, its order has exactly
\* one OrderItem per cart item the checkout read, with that item's SKU, size
\* and quantity, and the cart still exists and has no items.
C5_OrderMirrorsCart ==
    [][\A r \in Workers :
          /\ (req[r].pc = "co_item" /\ req'[r].pc \in {"co_variant", "co_product"}) =>
                \E oi \in orderItems' \ orderItems :
                    /\ orderItems' = orderItems \cup {oi}
                    /\ oi.order = req[r].order
                    /\ oi.line = req[r].idx
                    /\ Carries(oi, Current(r))
          /\ (req[r].pc = "co_clear" /\ req'[r].pc = "done") =>
                /\ req'[r].outcome = "ok"
                /\ \E o \in orders' : o.id = req[r].order /\ o.user = req[r].who
                /\ Cardinality(OrderItemsOf(req[r].order)') = Len(req[r].snapshot)
                /\ \A k \in 1..Len(req[r].snapshot) :
                      \E oi \in OrderItemsOf(req[r].order)' :
                          /\ oi.line = k
                          /\ oi.sku = Sku(req[r].snapshot[k].product)
                          /\ oi.size = Size(req[r].snapshot[k].variant)
                          /\ oi.quantity = req[r].snapshot[k].quantity
                /\ req[r].who \in carts'
                /\ ItemsOf(req[r].who)' = {}
      ]_vars

\* C5's case: a checkout of a cart of two items has succeeded.
C5_Witness ==
    \E r \in Checkouts :
        /\ req[r].pc = "done"
        /\ req[r].outcome = "ok"
        /\ Len(req[r].snapshot) = 2
        /\ Cardinality(OrderItemsOf(req[r].order)) = 2
        /\ ItemsOf(req[r].who) = {}

\* C6: a checkout that ends with the empty-cart redirect has created no
\* order and written no stock, and the cart it looked at held no item.
C6_EmptyOnlyWhenNoItems ==
    \A r \in Checkouts :
        (req[r].pc = "done" /\ req[r].outcome = "empty") =>
            /\ req[r].order = 0
            /\ ~req[r].wrote
            /\ req[r].snapshot = << >>

\* C8: a remove request that deleted an item came from the owner of the
\* item's cart.
C8_RemoveOnlyByOwner ==
    \A r \in Workers :
        (req[r].kind = "remove" /\ req[r].pc = "done" /\ req[r].outcome = "ok") =>
            req[r].item.cart = req[r].who

\* C9: no cart holds two items with the same (product, variant), and an add
\* that finds the item raises the stored quantity by the added amount.
C9_OneItemPerKey ==
    [][/\ \A i, j \in cartItems' :
             (i.cart = j.cart /\ i.product = j.product /\ i.variant = j.variant)
                => i = j
       /\ \A r \in Workers :
             (req[r].pc = "add_write" /\ req[r].item # NoItem
                /\ req'[r].outcome = "ok") =>
                   /\ RowById(req[r].item.id) # NoItem
                   /\ RowById(req[r].item.id)'.quantity =
                         RowById(req[r].item.id).quantity + req[r].quantity
      ]_vars

\* The items a cart holds for a (product, variant), and their quantity.
KeyItems(c, p, v) == {i \in ItemsOf(c) : i.product = p /\ i.variant = v}
KeyQuantity(c, p, v) == SumQuantity(KeyItems(c, p, v))

\* C11: a merge (the step that removes the source cart) leaves a destination
\* whose quantity for every (product, variant) is its previous quantity plus
\* the source's, which holds at most one item per (product, variant); the
\* source's items are gone with it, and a source without items leaves the
\* destination's items as they were.
C11_MergeSumsQuantities ==
    [][\A source \in carts \ carts' :
          \E dest \in carts' :
              /\ \A p \in Products, v \in Variants \cup {None} :
                    /\ KeyQuantity(dest, p, v)' =
                          KeyQuantity(dest, p, v) + KeyQuantity(source, p, v)
                    /\ Cardinality(KeyItems(dest, p, v)') <= 1
              /\ ItemsOf(source)' = {}
              /\ ItemsOf(source) = {} => ItemsOf(dest)' = ItemsOf(dest)
      ]_vars

\* C12: when a session that owns a cart with items signs in, the step folds
\* that cart into the user's: the session cart is gone, the user has a cart,
\* and its quantity for every (product, variant) is what it was plus the
\* session cart's.
C12_LoginFoldsSessionCart ==
    [][\A s \in Sessions :
          (sessionUser[s] = None /\ sessionUser'[s] # None
             /\ s \in carts /\ ItemsOf(s) # {}) =>
                \E u \in Users :
                    /\ sessionUser'[s] = u
                    /\ s \notin carts'
                    /\ u \in carts'
                    /\ \A p \in Products, v \in Variants \cup {None} :
                          KeyQuantity(u, p, v)' =
                             KeyQuantity(u, p, v) + KeyQuantity(s, p, v)
      ]_vars

\* C13: every cart has exactly one of user and session_key set.
C13_CartHasOneOwner ==
    \A c \in carts :
        (CartUser(c) # None) # (CartSessionKey(c) # None)

\* C13's case: a user's cart and a session's cart exist side by side, the
\* session having signed in since.
C13_Witness ==
    /\ \E u \in Users : u \in carts /\ CartUser(u) = u
    /\ \E s \in Sessions :
          s \in carts /\ CartSessionKey(s) = s /\ sessionUser[s] # None

\* The status changes of the state machine.
AllowedChanges ==
    {<<"pending", "processing">>, <<"processing", "paid">>,
     <<"paid", "shipped">>, <<"shipped", "delivered">>}
      \cup {<<o.status, "cancelled">> : o \in {x \in orders : CanCancel(x)}}
      \cup {<<o.status, "refunded">> : o \in {x \in orders : CanRefund(x)}}

\* C14: every change of an order's status is a forward step of the state
\* machine, or a change to cancelled from a status where can_cancel() holds,
\* or a change to refunded from a status where can_refund() holds.
C14_StatusFollowsStateMachine ==
    [][\A o \in orders, n \in orders' :
          (n.id = o.id /\ n.status # o.status) =>
              <<o.status, n.status>> \in AllowedChanges
      ]_vars

\* C15: an order whose status is paid, shipped, delivered or cancelled has
\* the timestamp of that status; a save that finds it unset stamps it with
\* the time of the save, and no step changes a timestamp that is set.
C15_TimestampsSetOnce ==
    [][\A o \in orders, n \in orders' :
          n.id = o.id =>
              /\ o.paid_at # NoTime => n.paid_at = o.paid_at
              /\ o.shipped_at # NoTime => n.shipped_at = o.shipped_at
              /\ o.delivered_at # NoTime => n.delivered_at = o.delivered_at
              /\ o.cancelled_at # NoTime => n.cancelled_at = o.cancelled_at
              /\ (n.status = "paid" /\ o.paid_at = NoTime) => n.paid_at = edits'
              /\ (n.status = "shipped" /\ o.shipped_at = NoTime) =>
                    n.shipped_at = edits'
              /\ (n.status = "delivered" /\ o.delivered_at = NoTime) =>
                    n.delivered_at = edits'
              /\ (n.status = "cancelled" /\ o.cancelled_at = NoTime) =>
                    n.cancelled_at = edits'
      ]_vars

\* C15's case: an order was saved as paid, then with another status, and
\* is paid again; paid_at is still the time of the first of these saves.
C15_Witness ==
    \E o \in orders :
        /\ o.status = "paid"
        /\ o.paid_at = 1
        /\ o.shipped_at = 2
        /\ edits = 3

\* C16: every order has an order_number from its creation on, no step
\* changes the number of an order, and no two orders share a number.
C16_OrderNumberUniqueAndFixed ==
    [][/\ \A n \in orders' : n.order_number \in OrderNumbers
       /\ \A o \in orders, n \in orders' :
             n.id = o.id => n.order_number = o.order_number
       /\ \A a, b \in orders' :
             a.order_number = b.order_number => a.id = b.id
      ]_vars

\* C16's case: a checkout whose generated number was taken has ended in
\* an error without an order, and the order that holds the number has been
\* saved again since.
C16_Witness ==
    /\ \E r \in Checkouts :
          req[r].pc = "done" /\ req[r].outcome = "error" /\ req[r].order = 0
    /\ \E o \in orders : o.status # "pending" /\ o.order_number \in OrderNumbers

\* C17: no step removes an order or an order item, changes the customer
\* name an order carries, or changes the SKU, size, unit price or quantity an
\* order item carries; the product and variant references of an order item
\* either stay or become empty.
C17_OrderSnapshotsStay ==
    [][/\ \A o \in orders : \E n \in orders' :
             n.id = o.id /\ n.customer_name = o.customer_name
       /\ \A oi \in orderItems : \E n \in orderItems' :
             /\ n.order = oi.order /\ n.line = oi.line
             /\ n.sku = oi.sku
             /\ n.size = oi.size
             /\ n.unit_price = oi.unit_price
             /\ n.quantity = oi.quantity
             /\ n.product \in {oi.product, None}
             /\ n.variant \in {oi.variant, None}
      ]_vars

\* C17's case: since the order was placed the customer has changed the
\* profile name, the product's price has changed and the product has been
\* deleted; the order and its item still carry what they were created with.
C17_Witness ==
    \E o \in orders, oi \in orderItems :
        /\ oi.order = o.id
        /\ o.customer_name # users[o.user].name
        /\ oi.product = None
        /\ oi.sku = Sku("p1")
        /\ oi.unit_price # Quantize2(VariantPrice("v1"))

\* The rank of a role: customer < employee < manager < admin.
Rank(role) ==
    CASE role = "customer" -> 0
      [] role = "employee" -> 1
      [] role = "manager" -> 2
      [] role = "admin" -> 3

\* C18: the answer of can_delete_user is true exactly when the actor is an
\* employee, manager or admin, the target is not an admin that a
\* non-superuser asks about, and the target's rank is below the actor's.
\* So an employee never may delete a manager or an admin, a manager never an
\* admin, and nobody a user of the same rank; a manager may delete an
\* employee and an admin a manager and an employee.
C18_CanDeleteFollowsRank ==
    perm.actor # None =>
        LET a == perm.actor_role
            t == perm.target_role
        IN  /\ perm.can_delete =
                  (/\ a \in {"employee", "manager", "admin"}
                   /\ ~ (t = "admin" /\ ~perm.actor_superuser)
                   /\ Rank(t) < Rank(a))
            /\ Rank(t) >= Rank(a) => ~perm.can_delete
            /\ (a = "manager" /\ t = "employee") => perm.can_delete
            /\ (a = "admin" /\ t \in {"manager", "employee"}) => perm.can_delete

\* C18's case: a manager has asked about another manager (refused) after
\* roles were assigned.
C18_Witness ==
    /\ perm.actor # None
    /\ perm.actor # perm.target
    /\ perm.actor_role = "manager"
    /\ perm.target_role = "manager"
    /\ ~perm.can_delete

\* C19: can_edit_user answers true whenever actor and target are the same
\* user, whatever the role, and for another target what can_delete_user
\* answers.
C19_SelfEditAlwaysAllowed ==
    perm.actor # None =>
        IF perm.actor = perm.target THEN perm.can_edit
        ELSE perm.can_edit = perm.can_delete

\* C20: the save of an employee who is not a superuser and whose role has
\* been changed to admin leaves is_staff true and is_superuser false.
C20_NoEscalationBySave ==
    [][\A u \in Users :
          (users[u].role = "employee" /\ ~users[u].is_superuser
             /\ users'[u].role = "admin") =>
                users'[u].is_staff /\ ~users'[u].is_superuser
      ]_vars

\* The allow-list the specification gives each role that is not admin.
AllowList(role) ==
    CASE role = "manager" ->
           {"products.add_product", "products.change_product",
            "products.view_product", "orders.view_order", "orders.change_order",
            "accounts.view_user", "accounts.add_user"}
      [] role = "employee" ->
           {"products.view_product", "orders.view_order", "orders.change_order",
            "accounts.view_user"}
      [] role = "customer" -> {"orders.add_order", "orders.view_order"}

\* C21: has_perm answers true for every permission when the user has the
\* admin role or is a superuser; for any other user it answers true exactly
\* for the permissions on the role's allow-list, so a manager who is not a
\* superuser is refused products.delete_product.
C21_HasPermFollowsMatrix ==
    answer.fn = "has_perm" =>
        /\ (answer.role = "admin" \/ answer.is_superuser) => answer.result
        /\ (answer.role # "admin" /\ ~answer.is_superuser) =>
              (answer.result = (answer.permission \in AllowList(answer.role)))
        /\ (answer.role = "manager" /\ ~answer.is_superuser
               /\ answer.permission = "products.delete_product") => ~answer.result

\* C21's case: a manager who is not a superuser has asked for
\* products.delete_product and was refused.
C21_Witness ==
    /\ answer.fn = "has_perm"
    /\ answer.role = "manager"
    /\ ~answer.is_superuser
    /\ answer.permission = "products.delete_product"
    /\ ~answer.result

\* C29: for every stored user, is_staff is true exactly when the role is
\* admin, manager or employee, and is_superuser is true only when the role is
\* admin; a user whose role is not admin is granted by has_perm only what
\* the role's allow-list holds.
C29_FlagsFollowRole ==
    \A u \in Users :
        /\ users[u].is_staff = (users[u].role \in {"admin", "manager", "employee"})
        /\ users[u].is_superuser => users[u].role = "admin"
        /\ users[u].role # "admin" =>
              \A permission \in Permissions :
                 HasPerm(users[u], permission) =
                    (permission \in AllowList(users[u].role))

\* C22: is_valid answers false when the coupon is not active, when the time
\* is before valid_from or after valid_to, or when usage_limit is not null
\* (0 included) and usage_count >= usage_limit; in every other case it
\* answers true.
C22_IsValidFollowsRules ==
    answer.fn = "is_valid" =>
        answer.result =
           ~ \/ ~coupon.is_active
             \/ answer.now < coupon.valid_from
             \/ answer.now > coupon.valid_to
             \/ /\ coupon.usage_limit # NoLimit
                /\ coupon.usage_count >= coupon.usage_limit

\* C23: calculate_discount answers 0 when the subtotal is below
\* minimum_purchase; otherwise subtotal * discount_value / 100 for a
\* percentage coupon and the smaller of discount_value and subtotal for a
\* fixed one, which is never more than the subtotal (value 1000 and subtotal
\* 50 give 50).
C23_DiscountFollowsRules ==
    answer.fn = "calculate_discount" =>
        LET sub == answer.subtotal
            value == coupon.discount_value
        IN  /\ sub < coupon.minimum_purchase => answer.result = 0
            /\ (sub >= coupon.minimum_purchase
                   /\ coupon.discount_type = "percentage") =>
                  LET hundredth == sub \div 100
                      percents == value \div Unit
                  IN  /\ hundredth * 100 = sub
                      /\ percents * Unit = value
                      /\ answer.result = hundredth * percents
            /\ (sub >= coupon.minimum_purchase /\ coupon.discount_type = "fixed") =>
                  /\ answer.result \in {value, sub}
                  /\ answer.result <= value
                  /\ answer.result <= sub
            /\ (coupon.discount_type = "fixed" /\ value = 1000 * Unit
                   /\ sub = 50 * Unit /\ coupon.minimum_purchase = 0) =>
                  answer.result = 50 * Unit

\* C23's case: a fixed coupon of 1000 without a minimum has been asked about
\* a subtotal of 50 and answered 50.
C23_Witness ==
    /\ answer.fn = "calculate_discount"
    /\ coupon.discount_type = "fixed"
    /\ coupon.discount_value = 1000 * Unit
    /\ coupon.minimum_purchase = 0
    /\ answer.subtotal = 50 * Unit
    /\ answer.result = 50 * Unit

\* C28: an update request that stored a quantity or deleted the item came
\* from the principal the item's cart belongs to.
C28_UpdateOnlyByOwner ==
    \A r \in Workers :
        (req[r].kind = "update" /\ req[r].pc = "done" /\ req[r].outcome = "ok") =>
            req[r].item.cart = req[r].who

\* The sum over a set of cart items of unit price * quantity, the unit price
\* being the variant's price when the item has a variant and the product's
\* current price otherwise.
RECURSIVE SumLines(_)
SumLines(S) ==
    IF S = {} THEN 0
    ELSE LET i == CHOOSE x \in S : TRUE
             price == IF i.variant # None THEN VariantPrice(i.variant)
                      ELSE CurrentPrice(i.product)
         IN  price * i.quantity + SumLines(S \ {i})

C26_CurrentPriceRules ==
    \A p \in Products :
        LET base == basePrice[p]
            pct == discountPct[p]
            amt == discountAmt[p]
            price == CurrentPrice(p)
        IN  /\ pct > 0 => price * 100 = base * (100 - pct)
            /\ (pct <= 0 /\ amt > 0 /\ base - amt >= 0) => price = base - amt
            /\ (pct <= 0 /\ amt > 0 /\ base - amt < 0) => price = 0
            /\ (pct <= 0 /\ amt <= 0) => price = base
            /\ (base = 100 * Unit /\ pct = 20) => price = 80 * Unit

\* C26's case: a product saved with base 100, 20% and an amount of 5 is
\* priced 80.
C26_Witness ==
    /\ basePrice["p1"] = 100 * Unit
    /\ discountPct["p1"] = 20
    /\ discountAmt["p1"] = 5 * Unit
    /\ CurrentPrice("p1") = 80 * Unit

\* C27: every stored product has a current_price that is not negative, and a
\* product without percentage and without amount is priced at base_price.
C27_PriceNotNegative ==
    \A p \in Products :
        productExists[p] =>
            /\ CurrentPrice(p) >= 0
            /\ (discountPct[p] = 0 /\ discountAmt[p] = 0) =>
                  CurrentPrice(p) = basePrice[p]

\* C27's cases: a product whose amount exceeds its base price is priced 0
\* after an edit, and so is one discounted by 100%.
C27_Witness ==
    /\ edits > 0
    /\ discountPct["p1"] = 0
    /\ discountAmt["p1"] > basePrice["p1"]
    /\ basePrice["p1"] > 0
    /\ CurrentPrice("p1") = 0

\* The sum over a set of OrderItem rows of unit_price * quantity.
RECURSIVE SumOrderLines(_)
SumOrderLines(S) ==
    IF S = {} THEN 0
    ELSE LET oi == CHOOSE x \in S : TRUE
         IN  oi.unit_price * oi.quantity + SumOrderLines(S \ {oi})

\* C30: after a successful checkout the order's stored subtotal is the sum
\* of unit_price * quantity over its own OrderItems, and its stored total is
\* subtotal + tax + shipping - discount, whatever other requests ran
\* meanwhile.
C30_OrderTotalsMatchItems ==
    \A r \in Checkouts :
        (req[r].pc = "done" /\ req[r].outcome = "ok") =>
            \A o \in orders :
                o.id = req[r].order =>
                    /\ o.subtotal = SumOrderLines(OrderItemsOf(o.id))
                    /\ o.total = o.subtotal + o.tax + o.shipping - o.discount

\* C24: the total that calculate_totals stores is subtotal + tax + shipping
\* - discount and is not negative, whatever the order's items and discount.
C24_TotalNotNegative ==
    [][\A o \in orders' :
          o \notin orders =>
             /\ o.total = o.subtotal + o.tax + o.shipping - o.discount
             /\ o.total >= 0
      ]_vars

\* C10: every stored CartItem has a quantity of at least 1.
C10_QuantityAtLeastOne == \A i \in cartItems : i.quantity >= 1
====
